---- MODULE Spec2Model ----
(***************************************************************************)
(* Portfolio valuation of src/main/portfolios.py: get_portfolio_data reads *)
(* the purchase ledger, resolves a daily price series (market-data fetch,  *)
(* fallbacks, gap filling, weekday filter), reconstructs NAV and invested  *)
(* capital per date, post-processes the NAV table and builds the holdings  *)
(* snapshot.                                                               *)
(*                                                                         *)
(* Timestamps are integers in half-day units: day d at 00:00 is 2*d, day d *)
(* at 12:00 is 2*d+1.  Index dates of the price series are midnights; a    *)
(* ledger's bought_on may carry a time of day (pd.to_datetime keeps it).   *)
(* Missing prices (NaN) are the value NaN.  Quotients are kept as          *)
(* [num, den] pairs, den = 0 standing for the inf/NaN pandas produces.     *)
(***************************************************************************)
EXTENDS Integers, Sequences, FiniteSets, TLC

\* ---------------------------------------------------------------- bounds
\* Days are 0..LastDay; the valuation runs on day LastDay.
LastDay == 3
\* A ledger has at most MaxRows purchase rows.
MaxRows == 2

\* market_data.index.dayofweek < 5 keeps Monday..Friday.
WeekdayLimit == 5
\* Marker of a missing price (pd.isna).
NaN == -1
\* Marker of a missing timestamp: the minimum of no dates.
NaT == -2

\* Ledger symbols: a stock, the feed's gold future and the display symbol.
\* None carries surrounding blanks, so astype(str).str.strip() leaves each
\* as it is.
Tickers == {"AAA", "GC=F", "GOLD"}
\* Ledger quantities; the ledger is not validated, so a negative one is read.
Amounts == {-1, 1}
\* Purchase timestamps: Thu 00:00, Thu 12:00, Fri 00:00, Sat 00:00.
Times == {0, 1, 2, 4}
\* Where a feed column has values: everywhere, nowhere, on its first or on
\* its last date only; "zero" is a column quoted at 0 on every date.
ColPatterns == {"full", "nan", "first", "last", "zero"}

\* ---------------------------------------------------------------- helpers
Day(t) == t \div 2
Midnight(d) == 2 * d
\* pandas dayofweek (Monday = 0); day 0 is a Thursday.
dayofweek(t) == (Day(t) + 3) % 7

Range(s) == {s[i] : i \in 1..Len(s)}

RECURSIVE SumSeq(_)
SumSeq(s) == IF s = <<>> THEN 0 ELSE s[1] + SumSeq(Tail(s))

SetMin(S) == CHOOSE x \in S : \A y \in S : x <= y
SetMax(S) == CHOOSE x \in S : \A y \in S : x >= y

\* Series.unique(): first occurrences, in order of appearance.
RECURSIVE unique(_)
unique(s) ==
    IF s = <<>> THEN <<>>
    ELSE LET r == unique(SubSeq(s, 1, Len(s) - 1))
             x == s[Len(s)]
         IN IF x \in Range(r) THEN r ELSE Append(r, x)

\* Float division of pandas: never raises; den = 0 stands for inf/NaN.
Div(a, b) == [num |-> a, den |-> b]
Zero == [num |-> 0, den |-> 1]

\* ---------------------------------------------------------------- inputs
\* The market's close of ticker t on day d (distinct per ticker and day).
Quote(t, d) == IF t = "AAA" THEN 3 + d ELSE IF t = "GC=F" THEN 10 + d ELSE 20 + d

\* A ledger row: a purchase is recorded at the close of its day.
Rows ==
    {[ticker |-> t, amount |-> a, price |-> Quote(t, Day(b)), bought_on |-> b] :
        t \in Tickers, a \in Amounts, b \in Times}
Ledgers == UNION {[1..n -> Rows] : n \in 0..MaxRows}

\* One column of a feed response: where the source has values.
ColumnValues(t, idx, pat) ==
    [i \in 1..Len(idx) |->
        IF pat = "zero" THEN 0 ELSE
        IF \/ pat = "full"
           \/ pat = "first" /\ i = 1
           \/ pat = "last" /\ i = Len(idx)
        THEN Quote(t, Day(idx[i])) ELSE NaN]

\* Index dates a feed response may cover: every day from some day of the
\* requested range on (weekend sessions included).
FeedIndexes(start, today) ==
    {[i \in 1..(today - from + 1) |-> Midnight(from + i - 1)] : from \in Day(start)..today}

NoData(kind) == [kind |-> kind, index |-> <<>>, columns |-> <<>>, data |-> <<>>]

\* yf.download(tickers, start, end, ...)['Close']: it raises, returns no data,
\* returns a table with one column per requested ticker (the first one
\* possibly with gaps, the others complete), or, for a single ticker, an
\* unlabeled series.
Downloads(tickers, start, today) ==
    IF tickers = <<>> THEN {NoData("raise"), NoData("empty")} ELSE
    {NoData("raise"), NoData("empty")}
    \cup {[kind |-> "frame", index |-> idx, columns |-> tickers,
           data |-> [c \in 1..Len(tickers) |->
                       ColumnValues(tickers[c], idx, IF c = 1 THEN pat ELSE "full")]] :
            idx \in FeedIndexes(start, today), pat \in ColPatterns}
    \cup (IF Len(tickers) = 1
          THEN {[kind |-> "series", index |-> idx, columns |-> <<>>,
                 data |-> <<ColumnValues(tickers[1], idx, pat)>>] :
                  idx \in FeedIndexes(start, today), pat \in ColPatterns}
          ELSE {})

\* ------------------------------------------------------ ledger ingestion
\* The emptiness check left out.
LedgerNeverEmpty(p) == FALSE

\* purchases.empty
LedgerEmpty(p) == Len(p) = 0

\* purchases['bought_on'].min()
first_purchase(p) == IF p = <<>> THEN NaT ELSE SetMin({p[i].bought_on : i \in 1..Len(p)})

\* purchases['ticker'].unique().tolist()
TickerList(p) == unique([i \in 1..Len(p) |-> p[i].ticker])

\* ------------------------------------------------ price series resolution
\* DataFrame.empty / Series.empty: an axis of length 0.
IsEmpty(md) == Len(md.index) = 0 \/ (md.kind # "series" /\ Len(md.columns) = 0)

\* pd.date_range(start, end = today, freq = 'B'): the business days from
\* start on, at start's time of day, not after today 00:00.
BDateRange(start, today) ==
    LET n == IF start # NaT /\ start <= Midnight(today) THEN (Midnight(today) - start) \div 2 + 1 ELSE 0
    IN SelectSeq([k \in 1..n |-> start + 2 * (k - 1)],
                 LAMBDA t : dayofweek(t) < WeekdayLimit)

\* The fetch result after the except branch, the empty check and the
\* Series-to-frame conversion: a table [index, columns, data], data[c][i]
\* the value of column c on index date i.
AsFrame(dl, tickers, start, today) ==
    IF dl.kind = "raise" \/ IsEmpty(dl)
    THEN [index |-> BDateRange(start, today), columns |-> <<>>, data |-> <<>>]
    ELSE IF dl.kind = "series"
    THEN [index |-> dl.index, columns |-> <<tickers[1]>>, data |-> dl.data]
    ELSE [index |-> dl.index, columns |-> dl.columns, data |-> dl.data]

\* The feed symbol and its display symbol.
Rename(t) == IF t = "GC=F" THEN "GOLD" ELSE t

\* market_data.rename(columns = {'GC=F': 'GOLD'})
RenameColumns(md) ==
    [md EXCEPT !.columns = [c \in 1..Len(md.columns) |-> Rename(md.columns[c])]]

\* purchases['ticker'].replace('GC=F', 'GOLD')
RenameTickers(p) == [i \in 1..Len(p) |-> [p[i] EXCEPT !.ticker = Rename(p[i].ticker)]]

\* match['price'].iloc[0]: the price of the first ledger row of ticker t.
FallbackPrice(p, t) ==
    LET match == SelectSeq(p, LAMBDA r : r.ticker = t) IN match[1].price

\* for t in tickers: if t not in market_data.columns: market_data[t] = fallback
RECURSIVE AddFallbacks(_, _, _)
AddFallbacks(md, p, ts) ==
    IF ts = <<>> THEN md
    ELSE LET t == Head(ts)
             filled == IF t \in Range(md.columns) THEN md
                       ELSE [md EXCEPT
                               !.columns = Append(@, t),
                               !.data = Append(@, [i \in 1..Len(md.index) |-> FallbackPrice(p, t)])]
         IN AddFallbacks(filled, p, Tail(ts))

\* Series.ffill(): the last value at or before each row.
Ffill(col) ==
    [i \in 1..Len(col) |->
        LET S == {j \in 1..i : col[j] # NaN}
        IN IF S = {} THEN NaN ELSE col[SetMax(S)]]

\* Series.bfill(): the next value at or after each row.
Bfill(col) ==
    [i \in 1..Len(col) |->
        LET S == {j \in i..Len(col) : col[j] # NaN}
        IN IF S = {} THEN NaN ELSE col[SetMin(S)]]

\* market_data.ffill().bfill()
FillGaps(md) == [md EXCEPT !.data = [c \in 1..Len(md.data) |-> Bfill(Ffill(md.data[c]))]]

\* market_data[market_data.index.dayofweek < 5]
WeekdaysOnly(md) ==
    LET keep == SelectSeq([i \in 1..Len(md.index) |-> i],
                          LAMBDA i : dayofweek(md.index[i]) < WeekdayLimit)
    IN [index |-> [k \in 1..Len(keep) |-> md.index[keep[k]]],
        columns |-> md.columns,
        data |-> [c \in 1..Len(md.data) |-> [k \in 1..Len(keep) |-> md.data[c][keep[k]]]]]

\* pd.date_range raises ValueError on a start that is NaT.
ResolveRaises(dl, raw) ==
    (dl.kind = "raise" \/ IsEmpty(dl)) /\ first_purchase(raw) = NaT

\* The resolved price series.
Resolve(dl, raw, today) ==
    LET frame == RenameColumns(AsFrame(dl, TickerList(raw), first_purchase(raw), today))
        p == RenameTickers(raw)
    IN WeekdaysOnly(FillGaps(AddFallbacks(frame, p, TickerList(p))))

\* ------------------------------------------------------ NAV reconstruction
\* Columns of md labelled t.
ColumnsOf(md, t) == {c \in 1..Len(md.columns) : md.columns[c] = t}

\* prices[t] on index row i, for a label carried by exactly one column.
PriceAt(md, t, i) == md.data[CHOOSE c \in ColumnsOf(md, t) : TRUE][i]

\* The selection with a strict comparison.
ActiveHoldingsStrict(p, date) == SelectSeq(p, LAMBDA r : r.bought_on < date)

\* purchases[purchases['bought_on'] <= date]
ActiveHoldings(p, date) == SelectSeq(p, LAMBDA r : r.bought_on <= date)

\* A purchase's term of daily_nav.
NavTerm(md, r, i) ==
    IF ColumnsOf(md, r.ticker) # {} /\ PriceAt(md, r.ticker, i) # NaN
    THEN PriceAt(md, r.ticker, i) * r.amount ELSE 0

\* A purchase's term of daily_invested.
InvestedTerm(r) == r.price * r.amount

\* One iteration of the loop over market_data.iterrows().
NavRow(md, p, i) ==
    LET active == ActiveHoldings(p, md.index[i])
    IN IF active = <<>>
       THEN [date |-> md.index[i], nav |-> 0, invested |-> 0]
       ELSE [date |-> md.index[i],
             nav |-> SumSeq([k \in 1..Len(active) |-> NavTerm(md, active[k], i)]),
             invested |-> SumSeq([k \in 1..Len(active) |-> InvestedTerm(active[k])])]

NavSeries(md, p) == [i \in 1..Len(md.index) |-> NavRow(md, p, i)]

\* pd.isna(prices[t]) on a label carried by two columns is a Series, and
\* "not" of it raises ValueError.
NavRaises(md, p) ==
    \E i \in 1..Len(md.index) : \E k \in 1..Len(p) :
        p[k].bought_on <= md.index[i] /\ Cardinality(ColumnsOf(md, p[k].ticker)) > 1

\* The filter keeping the dates with invested = 0.
RealActivityNonNegative(ns) == SelectSeq(ns, LAMBDA r : r.invested >= 0)

\* nav_df[nav_df['invested'] > 0]
RealActivity(ns) == SelectSeq(ns, LAMBDA r : r.invested > 0)

WithReturn(r, cr) ==
    [date |-> r.date, nav |-> r.nav, invested |-> r.invested, cumret |-> cr]

\* The post-processing with the anchor's nav taken from the first date's nav.
PostProcessNavAnchor(ns) ==
    LET real == RealActivity(ns)
    IN IF real # <<>>
       THEN LET inception == [date |-> real[1].date, nav |-> real[1].nav,
                              invested |-> real[1].invested]
                rows == <<inception>> \o real
            IN [k \in 1..Len(rows) |->
                  WithReturn(rows[k], Div(rows[k].nav - rows[k].invested, rows[k].invested))]
       ELSE [k \in 1..Len(ns) |-> WithReturn(ns[k], Zero)]

\* Trim, anchor and cumulative returns.
PostProcess(ns) ==
    LET real == RealActivity(ns)
    IN IF real # <<>>
       THEN LET inception == [date |-> real[1].date, nav |-> real[1].invested,
                              invested |-> real[1].invested]
                rows == <<inception>> \o real
            IN [k \in 1..Len(rows) |->
                  WithReturn(rows[k], Div(rows[k].nav - rows[k].invested, rows[k].invested))]
       ELSE [k \in 1..Len(ns) |-> WithReturn(ns[k], Zero)]

\* ------------------------------------------------------ holdings snapshot
\* market_data.iloc[-1] as a lookup: the latest price of label t, NaN for
\* a label the row does not carry.
LatestPrice(md, t) ==
    IF ColumnsOf(md, t) = {} THEN NaN ELSE PriceAt(md, t, Len(md.index))

\* purchases[purchases['ticker'] == ticker]
RowsOf(p, t) == SelectSeq(p, LAMBDA r : r.ticker = t)

\* get_total_cost(ticker)
get_total_cost(p, t) ==
    LET rows == RowsOf(p, t) IN SumSeq([k \in 1..Len(rows) |-> rows[k].amount * rows[k].price])

\* groupby('ticker').agg(amount = sum, bought_on = min), one group per ticker.
GroupAmount(p, t) == LET rows == RowsOf(p, t) IN SumSeq([k \in 1..Len(rows) |-> rows[k].amount])
GroupBoughtOn(p, t) == first_purchase(RowsOf(p, t))

\* The tickers left after dropna(subset = ['current_price']).
ValuedTickers(md, p) == {t \in Range(TickerList(p)) : LatestPrice(md, t) # NaN}

\* The snapshot, one record per valued ticker.
Holdings(md, p) ==
    LET valued == ValuedTickers(md, p)
        mv(t) == GroupAmount(p, t) * LatestPrice(md, t)
        RECURSIVE SumMv(_)
        SumMv(S) == IF S = {} THEN 0
                    ELSE LET t == CHOOSE x \in S : TRUE IN mv(t) + SumMv(S \ {t})
        total_mv == SumMv(valued)
    IN [t \in valued |->
          [amount |-> GroupAmount(p, t),
           bought_on |-> GroupBoughtOn(p, t),
           current_price |-> LatestPrice(md, t),
           market_value |-> mv(t),
           cost_basis_total |-> get_total_cost(p, t),
           avg_entry_price |-> Div(get_total_cost(p, t), GroupAmount(p, t)),
           weight |-> Div(mv(t) * 100, total_mv),
           unrealized_pnl |-> mv(t) - get_total_cost(p, t),
           return_pct |-> Div((mv(t) - get_total_cost(p, t)) * 100, get_total_cost(p, t))]]

\* market_data.iloc[-1] raises IndexError on a table without rows; mapping
\* tickers through a row with a repeated label raises InvalidIndexError.
HoldingsRaises(md) ==
    \/ Len(md.index) = 0
    \/ \E c, d \in 1..Len(md.columns) : c # d /\ md.columns[c] = md.columns[d]

\* ------------------------------------------------------------------ state
VARIABLES
    pc,           \* "idle" before the call, "done" after it returned
    ledger_file,  \* whether portfolioGC.xlsx is there: "present" or "missing"
    ledger,       \* the rows of its purchases sheet
    feed,         \* what yf.download answered
    fetched,      \* whether yf.download was called
    purchases,    \* the purchases table after normalisation
    market_data,  \* the resolved price series
    nav_series,   \* the NavPoints the loop appended
    nav_df,       \* the returned NAV table (empty for None)
    holdings,     \* the returned holdings snapshot (empty for None)
    result,       \* "tables" or "none": (nav_df, holdings, market_data) or (None, None, None)
    error         \* why the result is none: "", "nofile", "empty" or "exception"

\* The memo of @st.cache_data(ttl=3600) around get_portfolio_data.
VARIABLES
    now,          \* the clock, in seconds
    cache,        \* the stored entry: whether there is one, when it was computed, its value
    calls,        \* get_portfolio_data() calls made by page renders
    computes      \* runs of the body of get_portfolio_data

\* streamlit_performances.xlsx and the Alternative Investing page.
VARIABLES
    spc,           \* "idle", "loaded" after load_static_data(), "done" after the page body
    static_file,   \* whether the workbook is there: "present" or "missing"
    sheets,        \* per sheet name: whether read_excel can read it, and its columns
    selected_fund, \* the fund the sidebar selected
    static_data,   \* what load_static_data() returned
    static_error,  \* whether load_static_data() reported an error
    view           \* what the page body did: "", "rendered", "nothing" or "exception"

portfolio_vars == <<pc, ledger_file, ledger, feed, fetched, purchases, market_data, nav_series,
                    nav_df, holdings, result, error>>
cache_vars == <<now, cache, calls, computes>>
static_vars == <<spc, static_file, sheets, selected_fund, static_data, static_error, view>>

vars == <<pc, ledger_file, ledger, feed, fetched, purchases, market_data, nav_series, nav_df,
          holdings, result, error, now, cache, calls, computes, spc, static_file, sheets,
          selected_fund, static_data, static_error, view>>

\* The run date, datetime.now().date().
Today == LastDay

NoFrame == [index |-> <<>>, columns |-> <<>>, data |-> <<>>]

\* ttl=3600 of the decorator, in seconds.
TTL == 3600

\* The value a cache entry holds: the returned triple and the st.error
\* message the call wrote.
NoValue == [result |-> "none", nav_df |-> <<>>, holdings |-> <<>>, market_data |-> NoFrame,
            error |-> ""]
NoEntry == [set |-> FALSE, stamp |-> 0, value |-> NoValue]

\* Nothing cached, no call made, clock at 0.
CacheIdle ==
    /\ now = 0
    /\ cache = NoEntry
    /\ calls = 0
    /\ computes = 0

\* load_static_data() returning None.
NoStaticData == [loaded |-> FALSE, frames |-> <<>>]

\* The Alternative Investing page not visited.
StaticIdle ==
    /\ spc = "idle"
    /\ static_file = "missing"
    /\ sheets = <<>>
    /\ selected_fund = "USEquity500"
    /\ static_data = NoStaticData
    /\ static_error = FALSE
    /\ view = ""

Init ==
    /\ pc = "idle"
    /\ \/ ledger_file = "present" /\ ledger \in Ledgers
       \/ ledger_file = "missing" /\ ledger = <<>>
    /\ feed = NoData("none")
    /\ fetched = FALSE
    /\ purchases = <<>>
    /\ market_data = NoFrame
    /\ nav_series = <<>>
    /\ nav_df = <<>>
    /\ holdings = <<>>
    /\ result = "none"
    /\ error = ""
    /\ CacheIdle
    /\ StaticIdle

\* return None, None, None before the fetch.
ReturnEarly(raw, why) ==
    /\ feed' = NoData("none")
    /\ fetched' = FALSE
    /\ purchases' = raw
    /\ market_data' = NoFrame
    /\ nav_series' = <<>>
    /\ nav_df' = <<>>
    /\ holdings' = <<>>
    /\ result' = "none"
    /\ error' = why

\* A valuation whose handler hands back whatever was computed when a step
\* raised.
ValuateKeepsPartial(raw, dl) ==
    LET p == RenameTickers(raw)
        md == Resolve(dl, raw, Today)
        raises == ResolveRaises(dl, raw) \/ NavRaises(md, p) \/ HoldingsRaises(md)
    IN /\ feed' = dl
       /\ fetched' = TRUE
       /\ purchases' = p
       /\ market_data' = md
       /\ nav_series' = IF NavRaises(md, p) THEN <<>> ELSE NavSeries(md, p)
       /\ nav_df' = IF raises THEN <<>> ELSE PostProcess(NavSeries(md, p))
       /\ holdings' = IF raises THEN <<>> ELSE Holdings(md, p)
       /\ result' = "tables"
       /\ error' = IF raises THEN "exception" ELSE ""

\* The body of get_portfolio_data from the fetch on.
Valuate(raw, dl) ==
    LET p == RenameTickers(raw)
        md == Resolve(dl, raw, Today)
        raises == ResolveRaises(dl, raw) \/ NavRaises(md, p) \/ HoldingsRaises(md)
    IN /\ feed' = dl
       /\ fetched' = TRUE
       /\ purchases' = p
       /\ market_data' = md
       /\ nav_series' = IF NavRaises(md, p) THEN <<>> ELSE NavSeries(md, p)
       /\ nav_df' = IF raises THEN <<>> ELSE PostProcess(NavSeries(md, p))
       /\ holdings' = IF raises THEN <<>> ELSE Holdings(md, p)
       /\ result' = IF raises THEN "none" ELSE "tables"
       /\ error' = IF raises THEN "exception" ELSE ""

\* One uncached call of get_portfolio_data().
GetPortfolioData ==
    /\ pc = "idle"
    /\ pc' = "done"
    /\ UNCHANGED <<ledger_file, ledger>>
    /\ IF ledger_file = "missing"
       THEN ReturnEarly(ledger, "nofile")
       ELSE IF LedgerEmpty(ledger)
       THEN ReturnEarly(ledger, "empty")
       ELSE \E dl \in Downloads(TickerList(ledger), first_purchase(ledger), Today) :
               Valuate(ledger, dl)

\* The script runs again on the next interaction.
Rerun ==
    /\ pc = "done"
    /\ pc' = "idle"
    /\ UNCHANGED <<ledger_file, ledger>>
    /\ feed' = NoData("none")
    /\ fetched' = FALSE
    /\ purchases' = <<>>
    /\ market_data' = NoFrame
    /\ nav_series' = <<>>
    /\ nav_df' = <<>>
    /\ holdings' = <<>>
    /\ result' = "none"
    /\ error' = ""

\* The portfolio page calling the body directly, the other parts at rest.
PortfolioCall == GetPortfolioData /\ UNCHANGED <<cache_vars, static_vars>>
PortfolioRerun == Rerun /\ UNCHANGED <<cache_vars, static_vars>>

Next == PortfolioCall \/ PortfolioRerun

Spec == Init /\ [][Next]_vars

\* ------------------------------------------- the static performance ledger
SheetNames == {"IBUST", "USEquity500"}
Funds == {"USEquity500", "IBUST (Inactive)"}

\* The columns the USEquity500 view reads.
ExpectedColumns == {"date", "netprofit", "win", "leverage used", "returns on equity"}
SheetColumns == ExpectedColumns \cup {"cumulative return"}

\* A sheet of the workbook: absent or unreadable, or its column labels.
Sheets ==
    {[readable |-> FALSE, columns |-> {}]}
        \cup {[readable |-> TRUE, columns |-> c] : c \in SUBSET SheetColumns}

\* The per-sheet loop: the conversions keep the labels, the rename turns
\* 'cumulative return' into 'cumulative returns'.
NormaliseColumns(cols) ==
    IF "cumulative return" \in cols
    THEN (cols \ {"cumulative return"}) \cup {"cumulative returns"}
    ELSE cols

\* pd.read_excel(excel_path, sheet_name=...) raises on a sheet it cannot read.
ReadExcelRaises(sh) == ~sh.readable

\* load_static_data(): one try around both reads and the loop.
LoadStaticData ==
    /\ spc = "idle"
    /\ spc' = "loaded"
    /\ view' = ""
    /\ UNCHANGED <<static_file, sheets, selected_fund>>
    /\ IF static_file = "missing"
       THEN static_data' = NoStaticData /\ static_error' = FALSE
       ELSE IF \E n \in SheetNames : ReadExcelRaises(sheets[n])
       THEN static_data' = NoStaticData /\ static_error' = TRUE
       ELSE /\ static_data' = [loaded |-> TRUE,
                               frames |-> [n \in SheetNames |-> NormaliseColumns(sheets[n].columns)]]
            /\ static_error' = FALSE

\* The sheet a fund's view reads.
FundSheet(fund) == IF fund = "USEquity500" THEN "USEquity500" ELSE "IBUST"

\* The body of the Alternative Investing page after the load: the
\* USEquity500 view indexes its columns, the IBUST view plots and shows the
\* head; without data neither branch runs.
RenderFund ==
    /\ spc = "loaded"
    /\ spc' = "done"
    /\ UNCHANGED <<static_file, sheets, selected_fund, static_data, static_error>>
    /\ view' = IF ~static_data.loaded THEN "nothing"
               ELSE IF selected_fund = "USEquity500"
                       /\ ~(ExpectedColumns \subseteq static_data.frames["USEquity500"])
               THEN "exception"
               ELSE "rendered"

\* The sidebar selects a fund and the script runs again; load_static_data is
\* memoised without a ttl and answers with its first result.
SelectFund ==
    /\ spc = "done"
    /\ spc' = "loaded"
    /\ \E f \in Funds : selected_fund' = f
    /\ view' = ""
    /\ UNCHANGED <<static_file, sheets, static_data, static_error>>

\* The portfolio page at rest.
PortfolioIdle ==
    /\ pc = "idle"
    /\ ledger_file = "missing"
    /\ ledger = <<>>
    /\ feed = NoData("none")
    /\ fetched = FALSE
    /\ purchases = <<>>
    /\ market_data = NoFrame
    /\ nav_series = <<>>
    /\ nav_df = <<>>
    /\ holdings = <<>>
    /\ result = "none"
    /\ error = ""

InitStatic ==
    /\ PortfolioIdle
    /\ CacheIdle
    /\ spc = "idle"
    /\ \/ static_file = "present" /\ sheets \in [SheetNames -> Sheets]
       \/ /\ static_file = "missing"
          /\ sheets = [n \in SheetNames |-> [readable |-> FALSE, columns |-> {}]]
    /\ selected_fund \in Funds
    /\ static_data = NoStaticData
    /\ static_error = FALSE
    /\ view = ""

StaticLoad == LoadStaticData /\ UNCHANGED <<portfolio_vars, cache_vars>>
StaticRender == RenderFund /\ UNCHANGED <<portfolio_vars, cache_vars>>
StaticSelect == SelectFund /\ UNCHANGED <<portfolio_vars, cache_vars>>

NextStatic == StaticLoad \/ StaticRender \/ StaticSelect

SpecStatic == InitStatic /\ [][NextStatic]_vars

\* ------------------------------------------------ the memoised valuation
\* How many page renders a run follows.
MaxRenders == 3

\* The seconds between one render and the next.
Delays == {0, 1, TTL - 1, TTL}

\* A memo without expiry, as @st.cache_data keeps one when no ttl is given.
CacheFreshForever(c, t) == c.set

\* An entry is served while it is younger than the ttl.
CacheFresh(c, t) == c.set /\ t - c.stamp < TTL

\* get_portfolio_data() as the page calls it: the stored value while the
\* entry is fresh, otherwise a run of the body whose result is stored.
CachedGetPortfolioData ==
    /\ calls < MaxRenders
    /\ calls' = calls + 1
    /\ now' = now
    /\ IF CacheFresh(cache, now)
       THEN /\ pc = "idle"
            /\ pc' = "done"
            /\ result' = cache.value.result
            /\ nav_df' = cache.value.nav_df
            /\ holdings' = cache.value.holdings
            /\ market_data' = cache.value.market_data
            /\ error' = cache.value.error
            /\ UNCHANGED <<ledger_file, ledger, feed, fetched, purchases, nav_series>>
            /\ UNCHANGED <<cache, computes>>
       ELSE /\ GetPortfolioData
            /\ computes' = computes + 1
            /\ cache' = [set |-> TRUE, stamp |-> now,
                         value |-> [result |-> result', nav_df |-> nav_df',
                                    holdings |-> holdings', market_data |-> market_data',
                                    error |-> error']]

\* The next render starts some seconds later.
RerunLater ==
    /\ Rerun
    /\ \E d \in Delays : now' = now + d
    /\ UNCHANGED <<cache, calls, computes>>

\* The ledgers of the cached runs: none, an empty sheet, one purchase of AAA.
CacheLedgers == {<<>>} \cup {<<r>> : r \in {x \in Rows : x.ticker = "AAA" /\ x.amount = 1}}

InitCache ==
    /\ pc = "idle"
    /\ \/ ledger_file = "present" /\ ledger \in CacheLedgers
       \/ ledger_file = "missing" /\ ledger = <<>>
    /\ feed = NoData("none")
    /\ fetched = FALSE
    /\ purchases = <<>>
    /\ market_data = NoFrame
    /\ nav_series = <<>>
    /\ nav_df = <<>>
    /\ holdings = <<>>
    /\ result = "none"
    /\ error = ""
    /\ CacheIdle
    /\ StaticIdle

CachedCall == CachedGetPortfolioData /\ UNCHANGED static_vars
CachedRerun == RerunLater /\ UNCHANGED static_vars

NextCache == CachedCall \/ CachedRerun

SpecCache == InitCache /\ [][NextCache]_vars

\* ================================================================ claims
\* The sum of f[x] over the finite set S.
RECURSIVE SumOver(_, _)
SumOver(f, S) ==
    IF S = {} THEN 0
    ELSE LET x == CHOOSE y \in S : TRUE IN f[x] + SumOver(f, S \ {x})

\* The call returned its three tables.
Tables == pc = "done" /\ result = "tables"

\* The ledger meets the constraints of the data model: quantities and
\* prices are positive.
ValidLedger == \A k \in 1..Len(ledger) : ledger[k].amount > 0 /\ ledger[k].price > 0

\* The purchases bought on or before a date.
BoughtBy(date) == {k \in 1..Len(purchases) : purchases[k].bought_on <= date}

\* The resolved price of label t on index row i, NaN without such a column.
ResolvedPrice(t, i) ==
    LET cs == {c \in 1..Len(market_data.columns) : market_data.columns[c] = t}
    IN IF cs = {} THEN NaN ELSE market_data.data[CHOOSE c \in cs : TRUE][i]

\* The index rows whose invested amount is positive.
PositiveRows == {i \in 1..Len(nav_series) : nav_series[i].invested > 0}

\* ---------------------------------------------------------------- C1
\* C1: on every date D of the resolved price series with at least one
\* purchase bought on or before D, the loop's invested is the sum of
\* price * amount over all those purchases, and its nav is the sum of
\* (price of the ticker on D) * amount over them, a missing price counting
\* as zero in nav while the purchase still counts in invested.
C1_NavAndInvested ==
    pc = "done" =>
        /\ result = "tables" => Len(nav_series) = Len(market_data.index)
        /\ \A i \in 1..Len(nav_series) :
             LET D == market_data.index[i]
                 act == BoughtBy(D)
             IN act # {} =>
                  /\ nav_series[i].date = D
                  /\ nav_series[i].invested =
                       SumOver([k \in act |-> purchases[k].price * purchases[k].amount], act)
                  /\ nav_series[i].nav =
                       SumOver([k \in act |->
                                  IF ResolvedPrice(purchases[k].ticker, i) = NaN THEN 0
                                  ELSE ResolvedPrice(purchases[k].ticker, i) * purchases[k].amount],
                               act)

\* A returned valuation with a date on which one active purchase has a
\* price and another has none.
C1_Witness ==
    /\ Tables
    /\ ValidLedger
    /\ \E i \in 1..Len(nav_series) : \E j, k \in BoughtBy(market_data.index[i]) :
         /\ ResolvedPrice(purchases[j].ticker, i) = NaN
         /\ ResolvedPrice(purchases[k].ticker, i) # NaN
         /\ nav_series[i].nav # 0

\* ---------------------------------------------------------------- C2
\* C2: over the returned NavPoints in order, invested never decreases: it
\* grows where a purchase becomes active for the first time and equals the
\* previous point's invested everywhere else.
C2_InvestedStepwise ==
    Tables =>
        \A k \in 2..Len(nav_df) :
            LET newly == \E j \in 1..Len(purchases) :
                            /\ purchases[j].bought_on <= nav_df[k].date
                            /\ ~(purchases[j].bought_on <= nav_df[k - 1].date)
            IN IF newly THEN nav_df[k].invested > nav_df[k - 1].invested
               ELSE nav_df[k].invested = nav_df[k - 1].invested

\* ---------------------------------------------------------------- C3
\* C3: whenever some date has invested > 0, the returned table has no point
\* dated before the first such date and none with invested = 0, and its
\* first point is the anchor: dated at the first date with invested > 0,
\* nav = invested = the invested amount of that date, cumulative return 0.
C3_Anchor ==
    Tables /\ PositiveRows # {} =>
        LET f == SetMin(PositiveRows)
        IN /\ nav_df[1].date = nav_series[f].date
           /\ nav_df[1].invested = nav_series[f].invested
           /\ nav_df[1].nav = nav_series[f].invested
           /\ nav_df[1].cumret.num = 0 /\ nav_df[1].cumret.den # 0
           /\ \A k \in 1..Len(nav_df) :
                nav_df[k].date >= nav_series[f].date /\ nav_df[k].invested # 0

\* A returned valuation whose first index date has invested = 0 and whose
\* first date with invested > 0 has a nav other than its invested.
C3_Witness ==
    /\ Tables
    /\ ValidLedger
    /\ PositiveRows # {}
    /\ nav_series[1].invested = 0
    /\ nav_series[SetMin(PositiveRows)].nav # nav_series[SetMin(PositiveRows)].invested

\* ---------------------------------------------------------------- C4
\* C4 as claimed: the returned table has exactly one NavPoint per date of
\* the price-series index, in ascending date order (stated for the ledgers
\* that meet the constraints of the data model).
C4_OnePointPerDate ==
    Tables /\ ValidLedger =>
        /\ Len(nav_df) = Len(market_data.index)
        /\ \A i \in 1..Len(nav_df) : nav_df[i].date = market_data.index[i]

\* C4 as amended: when some index date has invested > 0 the returned table
\* is the anchor followed by exactly one NavPoint per index date whose
\* invested is > 0, in ascending date order, so that the first such date
\* appears twice and no other date repeats; otherwise it is exactly one
\* NavPoint per index date, in index order.
C4_AnchorThenRealDates ==
    Tables =>
        IF PositiveRows # {}
        THEN /\ Len(nav_df) = Cardinality(PositiveRows) + 1
             /\ nav_df[1].date = nav_df[2].date
             /\ \A k \in 3..Len(nav_df) : nav_df[k - 1].date < nav_df[k].date
             /\ {nav_df[k].date : k \in 2..Len(nav_df)} =
                {market_data.index[i] : i \in PositiveRows}
        ELSE /\ Len(nav_df) = Len(market_data.index)
             /\ \A i \in 1..Len(nav_df) : nav_df[i].date = market_data.index[i]

\* A returned valuation that dropped an index date and kept another.
C4_Witness ==
    /\ Tables
    /\ ValidLedger
    /\ PositiveRows # {}
    /\ Cardinality(PositiveRows) < Len(market_data.index)

\* ---------------------------------------------------------------- C5
\* C5: every returned NavPoint has cumulative return (nav - invested) /
\* invested when invested is not 0, and 0 when invested = 0.
C5_CumulativeReturn ==
    Tables =>
        \A k \in 1..Len(nav_df) :
            IF nav_df[k].invested # 0
            THEN /\ nav_df[k].cumret.den # 0
                 /\ nav_df[k].cumret.num * nav_df[k].invested =
                    (nav_df[k].nav - nav_df[k].invested) * nav_df[k].cumret.den
            ELSE nav_df[k].cumret.den # 0 /\ nav_df[k].cumret.num = 0

\* ---------------------------------------------------------------- C6
\* C6: the resolved price series has an entry for every business day from
\* the earliest purchase date to today and no missing value for any ticker
\* of a purchase, whatever the feed returned (stated for the ledgers that
\* meet the constraints of the data model).
C6_SeriesComplete ==
    pc = "done" /\ fetched /\ ValidLedger =>
        /\ \A d \in Day(first_purchase(ledger))..Today :
             dayofweek(Midnight(d)) < WeekdayLimit =>
                \E i \in 1..Len(market_data.index) : Day(market_data.index[i]) = d
        /\ \A k \in 1..Len(purchases) :
             \E c \in 1..Len(market_data.columns) :
                /\ market_data.columns[c] = purchases[k].ticker
                /\ \A i \in 1..Len(market_data.index) : market_data.data[c][i] # NaN

\* ---------------------------------------------------------------- C7
\* C7: when the fetch raises or returns no data, the price series is the
\* business-day calendar from the first purchase date to today, every
\* ledger ticker is priced at its first purchase price on each of those
\* days, and the call returns NAV points and a holdings snapshot (stated
\* for the ledgers that meet the constraints of the data model; a ticker's
\* first purchase is taken in ledger row order, as the code takes it).
C7_FeedDownStillValues ==
    pc = "done" /\ fetched /\ ValidLedger /\ feed.kind \in {"raise", "empty"} =>
        /\ {Day(market_data.index[i]) : i \in 1..Len(market_data.index)} =
           {d \in Day(first_purchase(ledger))..Today : dayofweek(Midnight(d)) < WeekdayLimit}
        /\ \A k \in 1..Len(purchases) : \A i \in 1..Len(market_data.index) :
             ResolvedPrice(purchases[k].ticker, i) =
                purchases[SetMin({j \in 1..Len(purchases) :
                                    purchases[j].ticker = purchases[k].ticker})].price
        /\ result = "tables"
        /\ Len(nav_df) > 0
        /\ DOMAIN holdings # {}

\* ---------------------------------------------------------------- C8
\* C8: a ledger ticker absent from the fetched series is priced, on every
\* date, at the unit price of its earliest-dated purchase, whatever the row
\* order of the ledger (stated for the ledgers that meet the constraints of
\* the data model).
C8_FallbackIsEarliestPurchase ==
    pc = "done" /\ fetched /\ ValidLedger =>
        \A k \in 1..Len(purchases) :
            LET t == purchases[k].ticker
                mine == {j \in 1..Len(purchases) : purchases[j].ticker = t}
                earliest == {j \in mine : \A h \in mine :
                                purchases[j].bought_on <= purchases[h].bought_on}
            IN t \notin {Rename(feed.columns[c]) : c \in 1..Len(feed.columns)}
               /\ feed.kind # "series" =>
                  \A i \in 1..Len(market_data.index) :
                      ResolvedPrice(t, i) \in {purchases[j].price : j \in earliest}

\* ---------------------------------------------------------------- C9
\* C9: after normalisation neither the purchases nor the price-series
\* columns carry "GC=F", and a purchase recorded under "GC=F" is valued
\* under "GOLD" in NAV and in the holdings snapshot.  Stated for the
\* ledgers that meet the constraints of the data model and the calls whose
\* resolved series has rows and no missing value.
C9_GoldAlias ==
    pc = "done" /\ fetched /\ ValidLedger =>
        /\ \A k \in 1..Len(purchases) : purchases[k].ticker # "GC=F"
        /\ \A c \in 1..Len(market_data.columns) : market_data.columns[c] # "GC=F"
        /\ \A k \in 1..Len(ledger) :
             /\ ledger[k].ticker = "GC=F"
             /\ Len(market_data.index) > 0
             /\ \A c \in 1..Len(market_data.data) : \A i \in 1..Len(market_data.index) :
                  market_data.data[c][i] # NaN
             => /\ result = "tables"
                /\ purchases[k].ticker = "GOLD"
                /\ "GOLD" \in DOMAIN holdings

\* ---------------------------------------------------------------- C10
\* C10: on an empty ledger the call returns (None, None, None) without
\* calling the market-data source and without computing NAV or holdings.
C10_EmptyLedgerShortCircuits ==
    pc = "done" /\ ledger_file = "present" /\ ledger = <<>> =>
        /\ result = "none"
        /\ ~fetched
        /\ nav_series = <<>>
        /\ nav_df = <<>>
        /\ DOMAIN holdings = {}

\* A call that found the ledger file with no rows in it.
C10_Witness == pc = "done" /\ ledger_file = "present" /\ ledger = <<>> /\ error = "empty"

\* ---------------------------------------------------------------- C11
\* C11: every purchase record used in NAV Reconstruction and the holdings
\* snapshot has a non-empty ticker, a positive quantity and a positive unit
\* price; a ledger row violating one of these is never used in valuation.
C11_OnlyValidPurchasesValued ==
    Tables =>
        \A k \in 1..Len(purchases) :
            /\ purchases[k].ticker # ""
            /\ purchases[k].amount > 0
            /\ purchases[k].price > 0

\* ---------------------------------------------------------------- C14
\* The sum of the weights' numerators; every weight has the total market
\* value as its denominator.
WeightNumerators == SumOver([t \in DOMAIN holdings |-> holdings[t].weight.num], DOMAIN holdings)

\* C14: in the holdings snapshot each weight is market value / total market
\* value * 100 and the weights sum to 100 whenever at least one ticker has a
\* valid latest price, a latest price of 0 included (stated for the ledgers
\* that meet the constraints of the data model).
C14_WeightsSumTo100 ==
    Tables /\ ValidLedger /\ DOMAIN holdings # {} =>
        LET total == SumOver([t \in DOMAIN holdings |-> holdings[t].market_value],
                             DOMAIN holdings)
        IN /\ \A t \in DOMAIN holdings :
                /\ holdings[t].weight.den # 0
                /\ holdings[t].weight.num * total =
                   holdings[t].market_value * 100 * holdings[t].weight.den
           /\ total # 0
           /\ WeightNumerators = 100 * total

\* ---------------------------------------------------------------- C15
\* C15: the call ends in (None, None, None) or in three tables, never in
\* an exception; a returned NAV table has at least one row; a price series
\* without rows after the weekday filter always ends in (None, None, None).
C15_AllOrNothing ==
    pc = "done" =>
        /\ result \in {"none", "tables"}
        /\ result = "none" => nav_df = <<>> /\ DOMAIN holdings = {}
        /\ result = "tables" => Len(nav_df) >= 1 /\ error = ""
        /\ fetched /\ Len(market_data.index) = 0 => result = "none"
        /\ error = "exception" => result = "none"

\* A call on a valid ledger whose price series has no rows left after the
\* weekday filter, answered with (None, None, None).
C15_Witness ==
    /\ pc = "done"
    /\ fetched
    /\ ValidLedger
    /\ Len(market_data.index) = 0
    /\ error = "exception"
    /\ result = "none"

\* ---------------------------------------------------------------- C12
SheetFaulty(sh) == ~sh.readable \/ ~(ExpectedColumns \subseteq sh.columns)
SheetIntact(sh) == sh.readable /\ ExpectedColumns \subseteq sh.columns

\* C12: when one of the two sheets is missing, unreadable or lacks an
\* expected column, the loader still returns the other sheet's data and the
\* other fund's view still renders.
C12_SheetErrorsIsolated ==
    spc = "done" /\ static_file = "present" =>
        \A bad, other \in SheetNames :
            bad # other /\ SheetFaulty(sheets[bad]) /\ SheetIntact(sheets[other]) =>
                /\ static_data.loaded
                /\ static_data.frames[other] = NormaliseColumns(sheets[other].columns)
                /\ FundSheet(selected_fund) = other => view = "rendered"

\* ---------------------------------------------------------------- C13
\* The triple and message the page sees after a call.
Returned == [result |-> result, nav_df |-> nav_df, holdings |-> holdings,
             market_data |-> market_data, error |-> error]
ReturnedNext == [result |-> result', nav_df |-> nav_df', holdings |-> holdings',
                 market_data |-> market_data', error |-> error']

\* C13: a call made while an entry younger than 3600 s exists returns that
\* entry's value without running the body or querying the feed; a call made
\* with no entry, or with one of age 3600 s or more, runs the body exactly
\* once and its result becomes the entry; nothing but a call runs the body.
C13_RecomputeOnlyWhenStale ==
    [][ IF pc = "idle" /\ pc' = "done"
        THEN IF cache.set /\ now - cache.stamp < 3600
             THEN /\ ReturnedNext = cache.value
                  /\ fetched' = FALSE
                  /\ computes' = computes
                  /\ cache' = cache
             ELSE /\ computes' = computes + 1
                  /\ cache'.set
                  /\ cache'.stamp = now
                  /\ cache'.value = ReturnedNext
        ELSE computes' = computes /\ cache' = cache ]_vars

\* Three renders: a run of the body at 0 s, a second run once the hour has
\* passed, then a call within the hour served from the second run's entry.
C13_Witness ==
    /\ pc = "done"
    /\ calls = 3
    /\ computes = 2
    /\ cache.stamp >= 3600
    /\ now > cache.stamp
    /\ now - cache.stamp < 3600
    /\ Returned = cache.value
    /\ result = "tables"
    /\ ~fetched

====
